---- MODULE Spec2Model ----
(***************************************************************************)
(* Model of the device session coordinator of iDevice Manager              *)
(* (src/main.py, class DeviceManager, and the two places of the main       *)
(* window that drive it: refresh_device and closeEvent).                   *)
(*                                                                         *)
(* Texts (the captured standard output of the external tools) are          *)
(* sequences of one-character strings.  The 15-character word              *)
(* "CurrentCapacity" is one symbol, "CC".                                  *)
(***************************************************************************)
EXTENDS Integers, Sequences, FiniteSets, TLC

VARIABLES
    pc,             \* caller -> position in the operation it has invoked
    frame,          \* caller -> the locals of the operation it is running
    operation_lock, \* DeviceManager.operation_lock: NoOwner or the holder
    udid,           \* DeviceManager.udid
    device_status,  \* the observer's presence indicator (update_device_info)
    presence,       \* outcome of the last identifier listing (spec 4.4)
    mount_status,   \* outcome of the last mount/unmount command that exited 0
    raw,            \* parser development: the input text
    ppc,            \* parser development: which function has been applied
    result,         \* parser development: what it produced
    installed,      \* run_command development: the tools on disk
    request         \* run_command development: the tool being asked for

vars == <<pc, frame, operation_lock, udid, device_status, presence,
          mount_status, raw, ppc, result, installed, request>>

coordVars == <<pc, frame, operation_lock, udid, device_status, presence,
               mount_status>>

parseVars == <<raw, ppc, result>>

toolVars == <<installed, request>>

(***************************************************************************)
(* Bounds                                                                  *)
(***************************************************************************)
NumCallers == 2

MaxInfoLen == 6

MaxDiagLen == 4

(***************************************************************************)
(* Text primitives (Python str methods used by check_connection)           *)
(***************************************************************************)
NL == "\n"

CC == "CC"

Whitespace == {" ", NL}

Max(S) == CHOOSE x \in S : \A y \in S : y <= x

Min(S) == CHOOSE x \in S : \A y \in S : x <= y

\* `c in s` for a one-symbol needle
Contains(s, c) == \E i \in 1..Len(s) : s[i] = c

RECURSIVE LStrip(_)
LStrip(s) == IF s # <<>> /\ Head(s) \in Whitespace THEN LStrip(Tail(s)) ELSE s

RECURSIVE RStrip(_)
RStrip(s) ==
    IF s # <<>> /\ s[Len(s)] \in Whitespace
    THEN RStrip(SubSeq(s, 1, Len(s) - 1))
    ELSE s

\* str.strip()
Strip(s) == RStrip(LStrip(s))

\* str.split(sep): the fields between the separators, always at least one
RECURSIVE Split(_, _)
Split(s, sep) ==
    IF ~Contains(s, sep)
    THEN <<s>>
    ELSE LET i == Min({j \in 1..Len(s) : s[j] = sep})
         IN  <<SubSeq(s, 1, i - 1)>> \o Split(SubSeq(s, i + 1, Len(s)), sep)

\* str.split(sep, 1) on a text that contains sep: <<before, after>>
RECURSIVE Split1Scan(_, _, _)
Split1Scan(before, rest, sep) ==
    IF Head(rest) = sep
    THEN <<before, Tail(rest)>>
    ELSE Split1Scan(Append(before, Head(rest)), Tail(rest), sep)

Split1(s, sep) == Split1Scan(<<>>, s, sep)

\* str.splitlines(): like split on the newline, but a final newline opens no
\* further line and the empty text has no line
SplitLines(s) ==
    IF s = <<>> THEN <<>>
    ELSE IF s[Len(s)] = NL THEN Split(SubSeq(s, 1, Len(s) - 1), NL)
    ELSE Split(s, NL)

(***************************************************************************)
(* Dictionaries: functions from key texts to value texts                   *)
(***************************************************************************)
EmptyDict == <<>>

Put(d, k, v) == [x \in (DOMAIN d) \cup {k} |-> IF x = k THEN v ELSE d[x]]

BatteryLevel == <<"BatteryLevel">>

(***************************************************************************)
(* check_connection, lines 149-153: the info mapping                       *)
(***************************************************************************)
InfoLineFirstWins(d, line) ==
    IF Contains(line, ":")
    THEN LET kv == Split1(line, ":")
         IN  IF Strip(kv[1]) \in DOMAIN d THEN d ELSE Put(d, Strip(kv[1]), Strip(kv[2]))
    ELSE d

InfoLine(d, line) ==
    IF Contains(line, ":")
    THEN LET kv == Split1(line, ":")
         IN  Put(d, Strip(kv[1]), Strip(kv[2]))
    ELSE d

RECURSIVE InfoLoop(_, _)
InfoLoop(d, lines) ==
    IF lines = <<>> THEN d ELSE InfoLoop(InfoLine(d, Head(lines)), Tail(lines))

ParseInfo(text) == InfoLoop(EmptyDict, SplitLines(text))

(***************************************************************************)
(* check_connection, lines 160-163: the battery entry.  The loop either    *)
(* runs to its end or raises IndexError at the first matching line that    *)
(* has no "=" (line.split("=")[1]).                                        *)
(***************************************************************************)
RECURSIVE BatteryLoop(_, _)
BatteryLoop(d, lines) ==
    IF lines = <<>> THEN [raised |-> FALSE, info |-> d]
    ELSE IF Contains(Head(lines), CC)
    THEN LET fields == Split(Head(lines), "=")
         IN  IF Len(fields) < 2
             THEN [raised |-> TRUE, info |-> d]
             ELSE BatteryLoop(Put(d, BatteryLevel, Strip(fields[2])), Tail(lines))
    ELSE BatteryLoop(d, Tail(lines))

\* `"CurrentCapacity" in stdout` guards the loop
BatteryUpdate(d, text) ==
    IF Contains(text, CC)
    THEN BatteryLoop(d, SplitLines(text))
    ELSE [raised |-> FALSE, info |-> d]

(***************************************************************************)
(* The coordinator: constants of DeviceManager and of the tools' world      *)
(***************************************************************************)
Callers == 1..NumCallers

NoOwner == 0

\* Python's None, as a text no tool can print
None == <<"None">>

\* `not x` for an identifier
Falsy(x) == x = None \/ x = <<>>

mount_point == <<"Z:\\">>

IdTool == "idevice_id.exe"

InfoTool == "ideviceinfo.exe"

DiagTool == "idevicediagnostics.exe"

MountTool == "ifuse.exe"

UnmountTool == "fusermount.exe"

\* what the tools may print (the environment's choice)
IdOutputs ==
    { <<>>,
      <<" ", NL>>,
      <<"A", NL>>,
      <<NL, "B", NL, "A", NL>> }

InfoOutputs ==
    { <<>>,
      <<"k", ":", " ", "v", NL>>,
      <<"k", ":", "v", ":", "v", NL, "x", NL, " ", "k", ":", "w">> }

DiagOutputs ==
    { <<>>,
      <<CC, " ", "=", " ", "7", NL>>,
      <<CC, NL>>,
      <<CC, "=", "x">>,
      <<"x", NL, CC, "=", "7", NL, CC, "=", "9">> }

Outputs(tool) ==
    CASE tool = IdTool   -> IdOutputs
      [] tool = InfoTool -> InfoOutputs
      [] tool = DiagTool -> DiagOutputs
      [] OTHER           -> {<<>>}

(***************************************************************************)
(* run_command, lines 109-133.  A result is a record; kind "ok" is a       *)
(* CompletedProcess, every other kind is the None that run_command         *)
(* returns after its log notification.                                     *)
(***************************************************************************)
Running == [kind |-> "running", returncode |-> -1, stdout |-> <<>>]

NotFoundResult == [kind |-> "not-found", returncode |-> -1, stdout |-> <<>>]

\* what a spawned process can come to: it exits, it outlives the timeout, or
\* subprocess.run raises something else
Outcomes(tool) ==
    { [kind |-> "ok", returncode |-> rc, stdout |-> out] :
          rc \in {0, 1}, out \in Outputs(tool) }
    \cup { [kind |-> k, returncode |-> -1, stdout |-> <<>>] :
          k \in {"timed-out", "io-error"} }

IsNone(r) == r.kind # "ok"

LogFor(tool, kind) ==
    [message  |-> CASE kind = "not-found" -> <<"Tool not found", tool>>
                    [] kind = "timed-out" -> <<"Command timed out", tool>>
                    [] OTHER              -> <<"Command failed", tool>>,
     severity |-> "error"]

\* lines 120-126: the process is spawned and the caller waits for it
Spawned(f, tool, args) ==
    [f EXCEPT !.calls = Append(@, [tool |-> tool, args |-> args, res |-> Running])]

\* lines 127-133: the wait ends, with a result or with a logged failure
Returned(f, r) ==
    [f EXCEPT !.calls[Len(f.calls)].res = r,
              !.logs = IF IsNone(r)
                       THEN Append(@, LogFor(f.calls[Len(f.calls)].tool, r.kind))
                       ELSE @]

\* lines 115-118: the tool is not on disk; no process is spawned
NotFound(f, tool, args) == Returned(Spawned(f, tool, args), NotFoundResult)

LastResult(f) == f.calls[Len(f.calls)].res

Succeeded(r) == ~IsNone(r) /\ r.returncode = 0

(***************************************************************************)
(* Locals of one operation                                                 *)
(***************************************************************************)
NewFrame ==
    [calls          |-> <<>>,   \* the run_command calls made so far
     logs           |-> <<>>,   \* log_signal emissions
     pub            |-> <<>>,   \* device_update_signal emissions
     device_info    |-> EmptyDict,
     ret            |-> "None", \* the value returned: "True" or "False"
     dropped        |-> FALSE]  \* this poll took presence from Connected to
                                \* Disconnected

\* update_device_info, lines 648-695: the slot of device_update_signal
UpdateDeviceInfo(snapshot) ==
    IF snapshot # EmptyDict THEN "Device Connected" ELSE "No Device"

Emit(f, snapshot) == [f EXCEPT !.pub = Append(@, snapshot)]

Return(f, value) == [f EXCEPT !.ret = value]

(***************************************************************************)
(* Initial state: DeviceManager.__init__ (lines 101-107), the status label *)
(* of the main window (line 307), nothing mounted, no caller inside.       *)
(***************************************************************************)
CoordInit ==
    /\ pc = [t \in Callers |-> "idle"]
    /\ frame = [t \in Callers |-> NewFrame]
    /\ operation_lock = NoOwner
    /\ udid = None
    /\ device_status = "No device connected"
    /\ presence = "Disconnected"
    /\ mount_status = "unmounted"

\* the two developments beside the one a specification is about are off
ParseOff ==
    /\ raw = <<>>
    /\ ppc = "off"
    /\ result = [raised |-> FALSE, info |-> EmptyDict]

ToolOff ==
    /\ installed = {}
    /\ request = "none"

Init ==
    /\ CoordInit
    /\ ParseOff
    /\ ToolOff

(***************************************************************************)
(* Arguments of the five commands                                          *)
(***************************************************************************)
IdArgs == << <<"-l">> >>

InfoArgs(u) == << <<"-u">>, u >>

DiagArgs == << <<"ioregentry">>, <<"AppleSmartBattery">> >>

MountArgs(u) == << mount_point, <<"--udid">>, u >>

UnmountArgs == << <<"-u">>, mount_point >>

(***************************************************************************)
(* Shapes shared by the call sites of run_command                          *)
(***************************************************************************)
Goto(t, where) == pc' = [pc EXCEPT ![t] = where]

SetFrame(t, f) == frame' = [frame EXCEPT ![t] = f]

\* run_command is entered: the tool is on disk and a process is spawned
Spawn(t, tool, args, running) ==
    /\ SetFrame(t, Spawned(frame[t], tool, args))
    /\ Goto(t, running)
    /\ UNCHANGED <<operation_lock, udid, device_status, presence, mount_status>>

(***************************************************************************)
(* refresh(): iDeviceManager.refresh_device -> check_connection            *)
(***************************************************************************)
\* lines 644-646 (the poll timer, the refresh button, or any other caller)
InvokeRefresh(t) ==
    /\ pc[t] = "idle"
    /\ Goto(t, "cc_lock")
    /\ SetFrame(t, NewFrame)
    /\ UNCHANGED <<operation_lock, udid, device_status, presence, mount_status>>
    /\ UNCHANGED <<parseVars, toolVars>>

\* line 137: with self.operation_lock
CcAcquire(t) ==
    /\ pc[t] = "cc_lock"
    /\ operation_lock = NoOwner
    /\ operation_lock' = t
    /\ Goto(t, "cc_id")
    /\ UNCHANGED <<frame, udid, device_status, presence, mount_status>>
    /\ UNCHANGED <<parseVars, toolVars>>

\* line 140: `not result or not result.stdout.strip()`
NoIdentifierUnstripped(r) == IsNone(r) \/ r.stdout = <<>>

NoIdentifier(r) == IsNone(r) \/ Strip(r.stdout) = <<>>

\* line 144: result.stdout.strip().split('\n')[0]
FirstIdentifier(text) == Split(Strip(text), NL)[1]

\* lines 140-144, with the listing's result in the frame
AfterId(t, f) ==
    LET r == LastResult(f)
    IN  IF NoIdentifier(r)
        THEN /\ SetFrame(t, [Return(Emit(f, EmptyDict), "False")
                                 EXCEPT !.dropped = (presence = "Connected")])
             /\ device_status' = UpdateDeviceInfo(EmptyDict)
             /\ presence' = "Disconnected"
             /\ Goto(t, "cc_ret")
             /\ UNCHANGED <<operation_lock, udid, mount_status>>
        ELSE /\ udid' = FirstIdentifier(r.stdout)
             /\ presence' = "Connected"
             /\ SetFrame(t, f)
             /\ Goto(t, "cc_info")
             /\ UNCHANGED <<operation_lock, device_status, mount_status>>

\* line 139
CcIdCall(t) ==
    /\ pc[t] = "cc_id"
    /\ \E exists \in BOOLEAN :
           IF exists
           THEN Spawn(t, IdTool, IdArgs, "cc_id_run")
           ELSE AfterId(t, NotFound(frame[t], IdTool, IdArgs))
    /\ UNCHANGED <<parseVars, toolVars>>

CcIdReturn(t) ==
    /\ pc[t] = "cc_id_run"
    /\ \E r \in Outcomes(IdTool) : AfterId(t, Returned(frame[t], r))
    /\ UNCHANGED <<parseVars, toolVars>>

\* line 148: `info_result and info_result.returncode == 0`
InfoOkAnyExit(r) == ~IsNone(r)

InfoOk(r) == Succeeded(r)

\* lines 148-153 and 168-169
AfterInfo(t, f) ==
    LET r == LastResult(f)
    IN  IF InfoOk(r)
        THEN /\ SetFrame(t, [f EXCEPT !.device_info = ParseInfo(r.stdout)])
             /\ Goto(t, "cc_diag")
             /\ UNCHANGED <<operation_lock, udid, device_status, presence,
                            mount_status>>
        ELSE /\ SetFrame(t, Return(Emit(f, EmptyDict), "False"))
             /\ device_status' = UpdateDeviceInfo(EmptyDict)
             /\ Goto(t, "cc_ret")
             /\ UNCHANGED <<operation_lock, udid, presence, mount_status>>

\* line 147
CcInfoCall(t) ==
    /\ pc[t] = "cc_info"
    /\ \E exists \in BOOLEAN :
           IF exists
           THEN Spawn(t, InfoTool, InfoArgs(udid), "cc_info_run")
           ELSE AfterInfo(t, NotFound(frame[t], InfoTool, InfoArgs(udid)))
    /\ UNCHANGED <<parseVars, toolVars>>

CcInfoReturn(t) ==
    /\ pc[t] = "cc_info_run"
    /\ \E r \in Outcomes(InfoTool) : AfterInfo(t, Returned(frame[t], r))
    /\ UNCHANGED <<parseVars, toolVars>>

\* lines 160-166: the battery entry, then the snapshot and True; an
\* IndexError of line 163 leaves the function before the snapshot
AfterDiag(t, f) ==
    LET r == LastResult(f)
        b == IF IsNone(r)
             THEN [raised |-> FALSE, info |-> f.device_info]
             ELSE BatteryUpdate(f.device_info, r.stdout)
    IN  IF b.raised
        THEN /\ SetFrame(t, [f EXCEPT !.device_info = b.info])
             /\ Goto(t, "cc_raise")
             /\ UNCHANGED <<operation_lock, udid, device_status, presence,
                            mount_status>>
        ELSE /\ SetFrame(t, Return(Emit([f EXCEPT !.device_info = b.info], b.info),
                                   "True"))
             /\ device_status' = UpdateDeviceInfo(b.info)
             /\ Goto(t, "cc_ret")
             /\ UNCHANGED <<operation_lock, udid, presence, mount_status>>

\* lines 156-159
CcDiagCall(t) ==
    /\ pc[t] = "cc_diag"
    /\ \E exists \in BOOLEAN :
           IF exists
           THEN Spawn(t, DiagTool, DiagArgs, "cc_diag_run")
           ELSE AfterDiag(t, NotFound(frame[t], DiagTool, DiagArgs))
    /\ UNCHANGED <<parseVars, toolVars>>

CcDiagReturn(t) ==
    /\ pc[t] = "cc_diag_run"
    /\ \E r \in Outcomes(DiagTool) : AfterDiag(t, Returned(frame[t], r))
    /\ UNCHANGED <<parseVars, toolVars>>

\* the with block is left by a return: the gate is released
CcExit(t) ==
    /\ pc[t] = "cc_ret"
    /\ operation_lock' = NoOwner
    /\ SetFrame(t, NewFrame)
    /\ Goto(t, "idle")
    /\ UNCHANGED <<udid, device_status, presence, mount_status>>
    /\ UNCHANGED <<parseVars, toolVars>>

\* the with block is left by the exception: the gate is released and the
\* exception reaches refresh_device, which does not catch it; the caller
\* makes no further call
CcUnwind(t) ==
    /\ pc[t] = "cc_raise"
    /\ operation_lock' = NoOwner
    /\ SetFrame(t, NewFrame)
    /\ Goto(t, "dead")
    /\ UNCHANGED <<udid, device_status, presence, mount_status>>
    /\ UNCHANGED <<parseVars, toolVars>>

(***************************************************************************)
(* unmount(): unmount_device, lines 186-189.  It takes no lock; it is      *)
(* called by mount_device (inside the gate) and by closeEvent (lines       *)
(* 728-738) or any other caller (outside it).                              *)
(***************************************************************************)
\* line 189 and line 184: `result.returncode == 0 if result else False`
ExitValueIgnoringCode(r) == IF ~IsNone(r) THEN "True" ELSE "False"

ExitValue(r) == IF Succeeded(r) THEN "True" ELSE "False"

\* what a finished unmount command leaves of the mount
AfterUnmountStatus(r) == IF Succeeded(r) THEN "unmounted" ELSE mount_status

\* what a finished mount command leaves of the mount
AfterMountStatus(r) == IF Succeeded(r) THEN "mounted" ELSE mount_status

InvokeUnmount(t) ==
    /\ pc[t] = "idle"
    /\ Goto(t, "um")
    /\ SetFrame(t, NewFrame)
    /\ UNCHANGED <<operation_lock, udid, device_status, presence, mount_status>>
    /\ UNCHANGED <<parseVars, toolVars>>

AfterUnmount(t, f, next) ==
    /\ SetFrame(t, IF next = "um_ret" THEN Return(f, ExitValue(LastResult(f))) ELSE f)
    /\ mount_status' = AfterUnmountStatus(LastResult(f))
    /\ Goto(t, next)
    /\ UNCHANGED <<operation_lock, udid, device_status, presence>>

\* line 188
UmCall(t) ==
    /\ pc[t] = "um"
    /\ \E exists \in BOOLEAN :
           IF exists
           THEN Spawn(t, UnmountTool, UnmountArgs, "um_run")
           ELSE AfterUnmount(t, NotFound(frame[t], UnmountTool, UnmountArgs), "um_ret")
    /\ UNCHANGED <<parseVars, toolVars>>

UmReturn(t) ==
    /\ pc[t] = "um_run"
    /\ \E r \in Outcomes(UnmountTool) :
           AfterUnmount(t, Returned(frame[t], r), "um_ret")
    /\ UNCHANGED <<parseVars, toolVars>>

UmExit(t) ==
    /\ pc[t] = "um_ret"
    /\ SetFrame(t, NewFrame)
    /\ Goto(t, "idle")
    /\ UNCHANGED <<operation_lock, udid, device_status, presence, mount_status>>
    /\ UNCHANGED <<parseVars, toolVars>>

(***************************************************************************)
(* mount(): mount_device, lines 171-184                                    *)
(***************************************************************************)
InvokeMount(t) ==
    /\ pc[t] = "idle"
    /\ Goto(t, "md_lock")
    /\ SetFrame(t, NewFrame)
    /\ UNCHANGED <<operation_lock, udid, device_status, presence, mount_status>>
    /\ UNCHANGED <<parseVars, toolVars>>

\* line 174: `not self.udid`
NoStoredUdidNever(u) == u = <<>>

NoStoredUdid(u) == Falsy(u)

\* lines 173-175
MdAcquire(t) ==
    /\ pc[t] = "md_lock"
    /\ operation_lock = NoOwner
    /\ operation_lock' = t
    /\ IF NoStoredUdid(udid)
       THEN /\ SetFrame(t, Return(frame[t], "False"))
            /\ Goto(t, "md_ret")
       ELSE /\ SetFrame(t, frame[t])
            /\ Goto(t, "md_um")
    /\ UNCHANGED <<udid, device_status, presence, mount_status>>
    /\ UNCHANGED <<parseVars, toolVars>>

\* an unmount that would take the gate its caller already holds
MdUnmountCallGated(t) ==
    /\ pc[t] = "md_um"
    /\ operation_lock = NoOwner
    /\ Spawn(t, UnmountTool, UnmountArgs, "md_um_run")
    /\ UNCHANGED <<parseVars, toolVars>>

\* line 178: self.unmount_device(), its value dropped
MdUnmountCall(t) ==
    /\ pc[t] = "md_um"
    /\ \E exists \in BOOLEAN :
           IF exists
           THEN Spawn(t, UnmountTool, UnmountArgs, "md_um_run")
           ELSE AfterUnmount(t, NotFound(frame[t], UnmountTool, UnmountArgs), "md_mnt")
    /\ UNCHANGED <<parseVars, toolVars>>

MdUnmountReturn(t) ==
    /\ pc[t] = "md_um_run"
    /\ \E r \in Outcomes(UnmountTool) :
           AfterUnmount(t, Returned(frame[t], r), "md_mnt")
    /\ UNCHANGED <<parseVars, toolVars>>

\* line 184
AfterMount(t, f) ==
    /\ SetFrame(t, Return(f, ExitValue(LastResult(f))))
    /\ mount_status' = AfterMountStatus(LastResult(f))
    /\ Goto(t, "md_ret")
    /\ UNCHANGED <<operation_lock, udid, device_status, presence>>

\* lines 180-183
MdMountCall(t) ==
    /\ pc[t] = "md_mnt"
    /\ \E exists \in BOOLEAN :
           IF exists
           THEN Spawn(t, MountTool, MountArgs(udid), "md_mnt_run")
           ELSE AfterMount(t, NotFound(frame[t], MountTool, MountArgs(udid)))
    /\ UNCHANGED <<parseVars, toolVars>>

MdMountReturn(t) ==
    /\ pc[t] = "md_mnt_run"
    /\ \E r \in Outcomes(MountTool) : AfterMount(t, Returned(frame[t], r))
    /\ UNCHANGED <<parseVars, toolVars>>

\* the with block is left: the gate is released
MdExit(t) ==
    /\ pc[t] = "md_ret"
    /\ operation_lock' = NoOwner
    /\ SetFrame(t, NewFrame)
    /\ Goto(t, "idle")
    /\ UNCHANGED <<udid, device_status, presence, mount_status>>
    /\ UNCHANGED <<parseVars, toolVars>>

(***************************************************************************)
(* The coordinator and its callers                                         *)
(***************************************************************************)
Next ==
    \E t \in Callers :
        \/ InvokeRefresh(t)
        \/ CcAcquire(t)
        \/ CcIdCall(t)
        \/ CcIdReturn(t)
        \/ CcInfoCall(t)
        \/ CcInfoReturn(t)
        \/ CcDiagCall(t)
        \/ CcDiagReturn(t)
        \/ CcExit(t)
        \/ CcUnwind(t)
        \/ InvokeUnmount(t)
        \/ UmCall(t)
        \/ UmReturn(t)
        \/ UmExit(t)
        \/ InvokeMount(t)
        \/ MdAcquire(t)
        \/ MdUnmountCall(t)
        \/ MdUnmountReturn(t)
        \/ MdMountCall(t)
        \/ MdMountReturn(t)
        \/ MdExit(t)

Spec == Init /\ [][Next]_vars

(***************************************************************************)
(* The two text functions of check_connection on every text up to a        *)
(* length                                                                  *)
(***************************************************************************)
InfoAlphabet == {"k", "v", ":", " ", NL}

DiagAlphabet == {CC, "=", "7", " ", NL, "x"}

TextsUpTo(alphabet, n) == UNION {[1..k -> alphabet] : k \in 0..n}

ParseInit ==
    /\ CoordInit
    /\ raw \in TextsUpTo(InfoAlphabet, MaxInfoLen) \cup TextsUpTo(DiagAlphabet, MaxDiagLen)
    /\ ppc = "input"
    /\ result = [raised |-> FALSE, info |-> EmptyDict]
    /\ ToolOff

\* lines 149-153 on the text
ApplyParseInfo ==
    /\ ppc = "input"
    /\ ppc' = "info"
    /\ result' = [raised |-> FALSE, info |-> ParseInfo(raw)]
    /\ UNCHANGED <<raw, coordVars, toolVars>>

\* lines 160-163 on the text, into an empty mapping
ApplyBattery ==
    /\ ppc = "input"
    /\ ppc' = "battery"
    /\ result' = BatteryUpdate(EmptyDict, raw)
    /\ UNCHANGED <<raw, coordVars, toolVars>>

ParseNext == ApplyParseInfo \/ ApplyBattery

ParseSpec == ParseInit /\ [][ParseNext]_vars

(***************************************************************************)
(* Vocabulary of the properties                                            *)
(***************************************************************************)
\* the caller has a process in flight (it is inside run_command, waiting)
InFlight(t) ==
    /\ frame[t].calls # <<>>
    /\ LastResult(frame[t]).kind = "running"

\* the i-th run_command call of the operation has ended
Ended(t, i) == Len(frame[t].calls) >= i /\ frame[t].calls[i].res.kind # "running"

\* a listing that yields no identifier: the command failed, or it printed
\* nothing but white space
YieldsNone(r) == r.kind # "ok" \/ \A i \in 1..Len(r.stdout) : r.stdout[i] \in Whitespace

\* the caller holds the gate inside check_connection / inside mount_device
InRefresh(t) ==
    pc[t] \in {"cc_id", "cc_id_run", "cc_info", "cc_info_run", "cc_diag",
               "cc_diag_run", "cc_ret", "cc_raise"}

InMount(t) == pc[t] \in {"md_um", "md_um_run", "md_mnt", "md_mnt_run", "md_ret"}

\* the commands for which the operation spawned a process
SpawnedTools(t) ==
    {frame[t].calls[i].tool : i \in {j \in 1..Len(frame[t].calls) :
                                        frame[t].calls[j].res.kind # "not-found"}}

CalledTools(t) == {frame[t].calls[i].tool : i \in 1..Len(frame[t].calls)}

\* the run_command calls that came to nothing (run_command returned None)
FailedCalls(f) == {i \in 1..Len(f.calls) : f.calls[i].res.kind \notin {"ok", "running"}}

(***************************************************************************)
(* C1: at any time at most one caller has an external command in flight,   *)
(* whichever of refresh(), mount() and unmount() the callers invoke.       *)
(* The cleanup unmount takes no gate, so the code does not keep this.      *)
(***************************************************************************)
C1_NoOverlap == Cardinality({t \in Callers : InFlight(t)}) <= 1

(***************************************************************************)
(* C2: no operation is left by an exception, and every command that        *)
(* failed has its log notification.  The battery line without "=" breaks   *)
(* the first half.                                                         *)
(***************************************************************************)
C2_NeverRaises ==
    \A t \in Callers :
        /\ pc[t] # "cc_raise"
        /\ Len(frame[t].logs) = Cardinality(FailedCalls(frame[t]))
        /\ \A i \in 1..Len(frame[t].logs) : frame[t].logs[i].severity = "error"

(***************************************************************************)
(* C3: the mount command is issued only while presence is Connected, that  *)
(* is only if the last identifier listing yielded an identifier.  The      *)
(* stored identifier is never cleared, so the code does not keep this.     *)
(***************************************************************************)
C3_MountOnlyWhileConnected ==
    \A t \in Callers : MountTool \in SpawnedTools(t) => presence = "Connected"

(***************************************************************************)
(* C4: a refresh that took presence from Connected to Disconnected ends    *)
(* (check_connection and refresh_device return) with the mount status      *)
(* Unmounted.  Neither of the two issues an unmount.                       *)
(***************************************************************************)
C4_ResetOnDisconnect ==
    [][\A t \in Callers :
           (pc[t] = "cc_ret" /\ frame[t].dropped /\ pc'[t] = "idle")
               => mount_status' = "unmounted"]_vars

(***************************************************************************)
(* C5: mount() with no stored identifier returns False without any         *)
(* run_command call (no unmount, no mount, hence no log), and no step of   *)
(* mount() changes the stored identifier.                                  *)
(***************************************************************************)
C5_MountWithoutIdentifier ==
    /\ [](\A t \in Callers :
            (pc[t] = "md_ret" /\ udid = None)
                => /\ frame[t].ret = "False"
                   /\ frame[t].calls = <<>>
                   /\ frame[t].logs = <<>>)
    /\ [][\A t \in Callers :
            ((pc[t] = "md_lock" /\ pc'[t] # "md_lock") \/ InMount(t))
                => udid' = udid]_vars

C5_Witness ==
    \E t \in Callers :
        pc[t] = "md_ret" /\ udid = None /\ frame[t].ret = "False"

(***************************************************************************)
(* C6: a refresh whose identifier listing yields nothing (failed command,  *)
(* empty or white-space output) publishes one empty record, returns False, *)
(* calls neither the info dumper nor the diagnostics dumper, and leaves    *)
(* presence Disconnected, whatever the session state before.               *)
(***************************************************************************)
C6_RefreshWithoutDevice ==
    \A t \in Callers :
        (InRefresh(t) /\ Ended(t, 1) /\ YieldsNone(frame[t].calls[1].res))
            => /\ pc[t] = "cc_ret"
               /\ frame[t].pub = <<EmptyDict>>
               /\ frame[t].ret = "False"
               /\ CalledTools(t) = {IdTool}
               /\ presence = "Disconnected"
               /\ device_status = "No Device"

\* the case of a session that was connected and mounted
C6_Witness ==
    \E t \in Callers :
        /\ pc[t] = "cc_ret"
        /\ YieldsNone(frame[t].calls[1].res)
        /\ frame[t].calls[1].res.kind = "ok"
        /\ frame[t].calls[1].res.stdout # <<>>
        /\ frame[t].dropped
        /\ mount_status = "mounted"

(***************************************************************************)
(* C7: an identifier was listed but the info dump is not ok (tool missing, *)
(* timeout, I/O error, nonzero exit): one empty record is published, the   *)
(* result is False and the diagnostics dumper is not called.               *)
(***************************************************************************)
C7_InfoDumpFailed ==
    \A t \in Callers :
        (/\ InRefresh(t)
         /\ Ended(t, 2)
         /\ \/ frame[t].calls[2].res.kind # "ok"
            \/ frame[t].calls[2].res.returncode # 0)
            => /\ pc[t] = "cc_ret"
               /\ frame[t].pub = <<EmptyDict>>
               /\ frame[t].ret = "False"
               /\ CalledTools(t) = {IdTool, InfoTool}
               /\ device_status = "No Device"

\* the case of the nonzero exit with output
C7_Witness ==
    \E t \in Callers :
        /\ pc[t] = "cc_ret"
        /\ Ended(t, 2)
        /\ frame[t].calls[2].res.kind = "ok"
        /\ frame[t].calls[2].res.returncode = 1
        /\ frame[t].calls[2].res.stdout # <<>>

(***************************************************************************)
(* The battery value as section 4.3 of the specification states it: the    *)
(* integer after the first "=" of the first line that has                  *)
(* "CurrentCapacity"; absent without such a line, absent when the text is  *)
(* no integer.                                                             *)
(***************************************************************************)
Digits == {"0", "1", "2", "3", "4", "5", "6", "7", "8", "9"}

IsInteger(text) == text # <<>> /\ \A i \in 1..Len(text) : text[i] \in Digits

Absent == [present |-> FALSE, value |-> <<>>]

StatedBattery(text) ==
    LET lines    == SplitLines(text)
        matching == {i \in 1..Len(lines) : Contains(lines[i], CC)}
    IN  IF matching = {} THEN Absent
        ELSE LET line == lines[Min(matching)]
             IN  IF ~Contains(line, "=") THEN Absent
                 ELSE LET eq    == Min({i \in 1..Len(line) : line[i] = "="})
                          value == Strip(SubSeq(line, eq + 1, Len(line)))
                      IN  IF IsInteger(value)
                          THEN [present |-> TRUE, value |-> value]
                          ELSE Absent

WithStatedBattery(d, text) ==
    IF StatedBattery(text).present
    THEN Put(d, BatteryLevel, StatedBattery(text).value)
    ELSE d

(***************************************************************************)
(* C8: an identifier was listed and the info dump, called with             *)
(* -u <identifier>, exited with 0: the identifier is stored, and once the  *)
(* diagnostics call has ended the refresh publishes parseInfo(info output) *)
(* with BatteryLevel exactly when the diagnostics command ran and the      *)
(* battery value is present, and returns True.  The exception of C2 and    *)
(* the battery value of C9 break it.                                       *)
(***************************************************************************)
C8_RefreshPublishesRecord ==
    \A t \in Callers :
        (/\ InRefresh(t)
         /\ Ended(t, 2)
         /\ frame[t].calls[2].res.kind = "ok"
         /\ frame[t].calls[2].res.returncode = 0)
            => /\ ~YieldsNone(frame[t].calls[1].res)
               /\ udid = FirstIdentifier(frame[t].calls[1].res.stdout)
               /\ frame[t].calls[2].args = InfoArgs(udid)
               /\ Ended(t, 3) =>
                    /\ pc[t] = "cc_ret"
                    /\ frame[t].ret = "True"
                    /\ frame[t].pub =
                         << IF frame[t].calls[3].res.kind = "ok"
                            THEN WithStatedBattery(
                                     ParseInfo(frame[t].calls[2].res.stdout),
                                     frame[t].calls[3].res.stdout)
                            ELSE ParseInfo(frame[t].calls[2].res.stdout) >>

(***************************************************************************)
(* C9: for every diagnostics text the battery entry the code makes is the  *)
(* stated battery value.  The code raises on a matching line without "=",  *)
(* takes the last matching line, stops at a second "=" and keeps text that *)
(* is no integer.                                                          *)
(***************************************************************************)
C9_BatteryAsStated ==
    ppc = "battery"
        => /\ ~result.raised
           /\ result.info = WithStatedBattery(EmptyDict, raw)

(***************************************************************************)
(* C10: for every info text the mapping has exactly the trimmed keys of    *)
(* the lines with a colon (the text before the first colon), each with the *)
(* trimmed text after the first colon of the last line that has the key.   *)
(***************************************************************************)
FirstColon(line) == Min({i \in 1..Len(line) : line[i] = ":"})

KeyOf(line) == Strip(SubSeq(line, 1, FirstColon(line) - 1))

ValueOf(line) == Strip(SubSeq(line, FirstColon(line) + 1, Len(line)))

C10_ParseInfo ==
    ppc = "info"
        => LET lines     == SplitLines(raw)
               withColon == {i \in 1..Len(lines) : Contains(lines[i], ":")}
           IN  /\ ~result.raised
               /\ DOMAIN result.info = {KeyOf(lines[i]) : i \in withColon}
               /\ \A k \in DOMAIN result.info :
                      result.info[k] =
                          ValueOf(lines[Max({i \in withColon : KeyOf(lines[i]) = k})])

\* a key on two lines with two values, next to a line without a colon
C10_Witness ==
    /\ ppc = "info"
    /\ LET lines == SplitLines(raw)
       IN  \E i, j \in 1..Len(lines) :
               /\ i < j
               /\ Contains(lines[i], ":")
               /\ Contains(lines[j], ":")
               /\ KeyOf(lines[i]) = KeyOf(lines[j])
               /\ ValueOf(lines[i]) # ValueOf(lines[j])
               /\ result.info[KeyOf(lines[j])] = ValueOf(lines[j])

(***************************************************************************)
(* run_command on its own, against a disk on which tools come and go       *)
(* (lines 109-133 with get_tool_path, lines 90-92).  One caller asks for   *)
(* one tool after another; its frame keeps the last two calls.             *)
(***************************************************************************)
ToolNames == {IdTool, InfoTool, DiagTool, MountTool, UnmountTool}

Runner == Min(Callers)

\* lines 111-112: args defaults to the empty list
NoArgs == <<>>

ToolInit ==
    /\ CoordInit
    /\ ParseOff
    /\ installed \in SUBSET ToolNames
    /\ request = "none"

\* a cached answer: a tool once found is taken to be there
OnDiskCached(tool) ==
    \/ tool \in installed
    \/ \E i \in 1..Len(frame[Runner].calls) :
           /\ frame[Runner].calls[i].tool = tool
           /\ frame[Runner].calls[i].res.kind # "not-found"

\* lines 115-116: os.path.exists(get_tool_path(command)), asked at every call
OnDisk(tool) == tool \in installed

\* a tool is installed (download_and_extract_tool, lines 69-88) or removed
DiskChange(tool) ==
    /\ installed' = IF tool \in installed
                    THEN installed \ {tool}
                    ELSE installed \cup {tool}
    /\ UNCHANGED <<coordVars, parseVars, request>>

\* line 109: run_command(command) is called
RcInvoke(tool) ==
    /\ pc[Runner] = "idle"
    /\ request' = tool
    /\ Goto(Runner, "rc_call")
    /\ SetFrame(Runner, IF Len(frame[Runner].calls) >= 2
                        THEN NewFrame
                        ELSE frame[Runner])
    /\ UNCHANGED <<operation_lock, udid, device_status, presence, mount_status>>
    /\ UNCHANGED <<parseVars, installed>>

\* lines 115-126: not on disk, the log and None at once; on disk, the process
RcCall ==
    /\ pc[Runner] = "rc_call"
    /\ IF OnDisk(request)
       THEN /\ SetFrame(Runner, Spawned(frame[Runner], request, NoArgs))
            /\ Goto(Runner, "rc_run")
       ELSE /\ SetFrame(Runner, NotFound(frame[Runner], request, NoArgs))
            /\ Goto(Runner, "idle")
    /\ UNCHANGED <<operation_lock, udid, device_status, presence, mount_status>>
    /\ UNCHANGED <<parseVars, toolVars>>

\* lines 127-133: the process ends, or the timeout, or another exception
RcReturn ==
    /\ pc[Runner] = "rc_run"
    /\ \E r \in Outcomes(request) : SetFrame(Runner, Returned(frame[Runner], r))
    /\ Goto(Runner, "idle")
    /\ UNCHANGED <<operation_lock, udid, device_status, presence, mount_status>>
    /\ UNCHANGED <<parseVars, toolVars>>

ToolNext ==
    \/ \E tool \in ToolNames : RcInvoke(tool)
    \/ RcCall
    \/ RcReturn
    \/ \E tool \in ToolNames : DiskChange(tool)

ToolSpec == ToolInit /\ [][ToolNext]_vars

(***************************************************************************)
(* C11: run_command on a tool that is not on disk when it is called        *)
(* returns at once (it never waits on a process and has no exception       *)
(* path) with the not-found result, no process spawned and exactly one     *)
(* more log entry, of severity error; the disk is asked at every call, so  *)
(* a tool that is on disk at the call is spawned whatever an earlier call  *)
(* found.                                                                  *)
(***************************************************************************)
C11_ToolNotFound ==
    [][(pc[Runner] = "rc_call" /\ pc'[Runner] # "rc_call")
         => IF request \notin installed
            THEN /\ pc'[Runner] = "idle"
                 /\ frame'[Runner].calls =
                        Append(frame[Runner].calls,
                               [tool |-> request, args |-> NoArgs,
                                res |-> NotFoundResult])
                 /\ frame'[Runner].logs =
                        Append(frame[Runner].logs,
                               [message  |-> <<"Tool not found", request>>,
                                severity |-> "error"])
            ELSE /\ pc'[Runner] = "rc_run"
                 /\ LastResult(frame'[Runner]) = Running
                 /\ frame'[Runner].logs = frame[Runner].logs]_vars

\* the tool ran at the first call, was removed, and is not found at the second
C11_Witness ==
    /\ pc[Runner] = "idle"
    /\ Len(frame[Runner].calls) = 2
    /\ frame[Runner].calls[1].tool = frame[Runner].calls[2].tool
    /\ frame[Runner].calls[1].res.kind = "ok"
    /\ frame[Runner].calls[2].res.kind = "not-found"
    /\ Len(frame[Runner].logs) = 1

(***************************************************************************)
(* C12: in a mount() with a stored identifier the first command is the     *)
(* unmount of the fixed mount point; the mount command is called only when *)
(* the unmount has ended, and it is called whatever the unmount came to,   *)
(* with the mount point and the stored identifier; mount() returns True    *)
(* exactly when the mount command exited with 0.                           *)
(***************************************************************************)
C12_MountSequence ==
    \A t \in Callers :
        (InMount(t) /\ udid # None)
            => LET c == frame[t].calls
               IN  /\ Len(c) <= 2
                   /\ Len(c) >= 1 =>
                        /\ c[1].tool = UnmountTool
                        /\ c[1].args = << <<"-u">>, mount_point >>
                   /\ Len(c) = 2 =>
                        /\ c[1].res.kind # "running"
                        /\ c[2].tool = MountTool
                        /\ c[2].args = << mount_point, <<"--udid">>, udid >>
                   /\ pc[t] = "md_ret" =>
                        /\ Len(c) = 2
                        /\ c[2].res.kind # "running"
                        /\ frame[t].ret = "True" <=>
                               (c[2].res.kind = "ok" /\ c[2].res.returncode = 0)
                        /\ frame[t].ret \in {"True", "False"}

\* the unmount timed out and the mount went through
C12_Witness ==
    \E t \in Callers :
        /\ pc[t] = "md_ret"
        /\ Len(frame[t].calls) = 2
        /\ frame[t].calls[1].res.kind = "timed-out"
        /\ frame[t].calls[2].res.kind = "ok"
        /\ frame[t].calls[2].res.returncode = 0
        /\ frame[t].ret = "True"

(***************************************************************************)
(* The coordinator under fair scheduling: a caller inside an operation     *)
(* goes on (every step after the gate is taken, every return of a          *)
(* command: a process ends or is ended by the timeout of line 124), and a  *)
(* caller waiting for the gate gets it if it is free again and again.      *)
(* Callers need not invoke anything.                                       *)
(***************************************************************************)
Steps(t) ==
    \/ CcIdCall(t)
    \/ CcIdReturn(t)
    \/ CcInfoCall(t)
    \/ CcInfoReturn(t)
    \/ CcDiagCall(t)
    \/ CcDiagReturn(t)
    \/ CcExit(t)
    \/ CcUnwind(t)
    \/ UmCall(t)
    \/ UmReturn(t)
    \/ UmExit(t)
    \/ MdUnmountCall(t)
    \/ MdUnmountReturn(t)
    \/ MdMountCall(t)
    \/ MdMountReturn(t)
    \/ MdExit(t)

Fairness ==
    \A t \in Callers :
        /\ WF_vars(Steps(t))
        /\ SF_vars(CcAcquire(t) \/ MdAcquire(t))

FairSpec == Init /\ [][Next]_vars /\ Fairness

(***************************************************************************)
(* C13: the gate is held exactly by the caller that is inside refresh() or *)
(* mount() (so it is free again after every way out of them, the early     *)
(* return, the normal return and the exception), and under fair scheduling *)
(* every caller that has invoked refresh(), mount() or unmount() comes out *)
(* of it, whoever held the gate when it came: no caller stays for ever     *)
(* inside or in front of an operation (a caller is outside only in "idle"  *)
(* and, after the exception, in "dead", and it enters from "idle").        *)
(* mount() gets through the unmount it performs with the gate held.        *)
(***************************************************************************)
C13_GateReleasedAndProgress ==
    /\ [](\A t \in Callers : (InRefresh(t) \/ InMount(t)) <=> operation_lock = t)
    /\ \A t \in Callers : []<>(pc[t] \in {"idle", "dead"})

\* a refresh waits for the gate while a mount runs its unmount inside it
C13_Witness ==
    \E t, u \in Callers :
        /\ pc[t] = "cc_lock"
        /\ pc[u] = "md_um_run"
        /\ operation_lock = u

(***************************************************************************)
(* C14: a refresh publishes exactly one snapshot before it ends: never two *)
(* while it runs, and one when it leaves the gate, by return or by         *)
(* exception.  The exception of C2 (line 163) ends the refresh before the  *)
(* emit of line 165: no snapshot.                                          *)
(***************************************************************************)
C14_ExactlyOneSnapshot ==
    \A t \in Callers :
        /\ InRefresh(t) => Len(frame[t].pub) <= 1
        /\ pc[t] \in {"cc_ret", "cc_raise"} => Len(frame[t].pub) = 1

(***************************************************************************)
(* C15: a refresh returns True exactly when the snapshot it published is   *)
(* not empty, so the status the observer shows after it is "Device         *)
(* Connected" exactly when it returned True.  An info dump that exits with *)
(* 0 and has no line with ":" (and no battery entry) gives the empty       *)
(* snapshot at line 165 and True at line 166.                              *)
(***************************************************************************)
C15_ResultAgreesWithSnapshot ==
    \A t \in Callers :
        (pc[t] = "cc_ret" /\ Len(frame[t].pub) = 1)
            => /\ frame[t].ret = "True" <=> frame[t].pub[1] # EmptyDict
               /\ device_status = "Device Connected" <=> frame[t].ret = "True"

====
